---- MODULE Spec2Model ----
(***************************************************************************)
(* Composer MCP server: the tool handlers of server.py as a state machine. *)
(*                                                                         *)
(* Every tool is synchronous and keeps nothing between calls, so one       *)
(* action is one whole invocation of a tool.  The variables hold what the  *)
(* last invocation did: its arguments, the result of strategy validation,  *)
(* the ordered log of what it did (validation, HTTP requests), the         *)
(* response of the remote service, and how the handler ended (a returned   *)
(* value or an exception that left the handler).                           *)
(*                                                                         *)
(* schemas.py and utils.py are not part of the sources at hand: the        *)
(* validator, the backtest codec, truncate_text and epoch_ms_to_date are   *)
(* modelled from the design document and marked so in the model map.       *)
(***************************************************************************)
EXTENDS Integers, Sequences, FiniteSets, TLC

VARIABLES call, validation, events, response, outcome,
          threads, frames, module_globals

\* What the last invocation of the one-call-at-a-time server did.
sequential == <<call, validation, events, response, outcome>>
\* Invocations in flight at the same time: what each caller sees of its
\* invocation, the local variables of each invocation, and the names bound
\* at module level.
concurrent == <<threads, frames, module_globals>>

vars == <<call, validation, events, response, outcome, threads, frames, module_globals>>

(***************************************************************************)
(* Bounds of the model.                                                    *)
(***************************************************************************)
\* Most children a weighting-group, conditional-branch or filter node of an
\* enumerated strategy tree has.
MaxChildren == 2
\* Most entries of the epoch_ms list of a daily-performance response.
MaxDates == 2

(***************************************************************************)
(* Text.  A text is a sequence of character codes.                         *)
(***************************************************************************)
\* The length every error message and raw body is cut to (second argument
\* of every truncate_text call of server.py).
TruncLen == 1000

Pad(prefix, ch, n) == prefix \o [i \in 1..n |-> ch]

\* utils.truncate_text: the text cut to its first n characters.
truncate_text(text, n) == IF Len(text) <= n THEN text ELSE SubSeq(text, 1, n)

\* str(e) of the exceptions the handlers catch.  A pydantic error message
\* lists every offending field and can be longer than TruncLen.
ExcText(exc) ==
    CASE exc = "JSONDecodeError" -> <<69, 120, 112, 101, 99, 116, 105, 110, 103>>
      [] exc = "TypeError"       -> <<110, 111, 32, 105, 116, 101, 109>>
      [] exc = "PydanticError"   -> Pad(<<49, 32, 101, 114, 114>>, 46, TruncLen + 5)
      [] exc = "IncompleteSeries" -> <<73, 110, 99, 111, 109, 112, 108>>
      [] exc = "ConnectError"    -> <<67, 111, 110, 110, 101, 99, 116>>
      [] OTHER                   -> <<63>>

(***************************************************************************)
(* JSON values.  Every value is a record tagged by k, so that values of    *)
(* different shapes can be told apart.  A JSON object is a function from   *)
(* its field names to values.                                              *)
(***************************************************************************)
Null == [k |-> "null"]
Num(n) == [k |-> "num", v |-> n]
Dict(items) == [k |-> "dict", items |-> items]
EmptyItems == [x \in {} |-> Null]

\* Python truthiness of a decoded JSON value.
Truthy(v) ==
    CASE v.k = "null" -> FALSE
      [] v.k = "num"  -> v.v # 0
      [] v.k = "dict" -> DOMAIN v.items # {}
      [] OTHER        -> TRUE

\* dict.get(key): the value, or None.
Get(fields, key) == IF key \in DOMAIN fields THEN fields[key] ELSE Null

\* d[key] = v
Put(fields, key, v) ==
    [x \in DOMAIN fields \cup {key} |-> IF x = key THEN v ELSE fields[x]]

\* del d[key]
Del(fields, key) == [x \in DOMAIN fields \ {key} |-> fields[x]]

(***************************************************************************)
(* Dates.  A timestamp t in epoch milliseconds is carried as the pair      *)
(* [s, ms] with t = 1000 * s + ms and ms in 0..999, which keeps every      *)
(* intermediate value inside the model checker's integers; Python's        *)
(* integers and floats hold these values exactly.                          *)
(***************************************************************************)
SecondsPerDay == 86400

Digit(n) == 48 + n

\* "%04d" and "%02d"
Digits4(n) == <<Digit(n \div 1000), Digit((n \div 100) % 10),
                Digit((n \div 10) % 10), Digit(n % 10)>>
Digits2(n) == <<Digit((n \div 10) % 10), Digit(n % 10)>>

\* strftime("%Y-%m-%d")
FormatDate(y, m, d) == Digits4(y) \o <<45>> \o Digits2(m) \o <<45>> \o Digits2(d)

\* The proleptic Gregorian date of the day that is `days` days after
\* 1970-01-01 (what datetime computes from a UTC timestamp).
CivilFromDays(days) ==
    LET z   == days + 719468
        era == z \div 146097
        doe == z - era * 146097
        yoe == (doe - doe \div 1460 + doe \div 36524 - doe \div 146096) \div 365
        doy == doe - (365 * yoe + yoe \div 4 - yoe \div 100)
        mp  == (5 * doy + 2) \div 153
        d   == doy - (153 * mp + 2) \div 5 + 1
        m   == IF mp < 10 THEN mp + 3 ELSE mp - 9
        y   == yoe + era * 400 + (IF m <= 2 THEN 1 ELSE 0)
    IN  [y |-> y, m |-> m, d |-> d]

\* utils.epoch_ms_to_date: the YYYY-MM-DD text of the UTC day holding t.
epoch_ms_to_date(t) ==
    LET c == CivilFromDays(t.s \div SecondsPerDay)
    IN  FormatDate(c.y, c.m, c.d)

(***************************************************************************)
(* Strategy tree model.  A node is [kind, id, children, parameters]; the   *)
(* id of a node of a submitted tree is its path, the sequence of child     *)
(* indices from the root.                                                  *)
(***************************************************************************)
NodeKinds == {"root", "weighting-group", "conditional-branch", "filter",
              "asset-leaf", "indicator-leaf"}
LeafKinds == {"asset-leaf", "indicator-leaf"}

RebalanceFrequencies == {"daily", "weekly", "monthly", "quarterly", "none"}
AssetClasses == {"EQUITIES", "CRYPTO"}

Node(kind, parameters, children) ==
    [kind |-> kind, id |-> <<>>, children |-> children, parameters |-> parameters]

RECURSIVE Relabel(_, _)
Relabel(n, path) ==
    [n EXCEPT !.id = path,
              !.children = [i \in 1..Len(n.children) |->
                               Relabel(n.children[i], path \o <<i>>)]]

\* Weights are in units of 0.01 percent: 10000 is 100%.
FullWeight == 10000
\* The tolerance of the weight rule, 0.01 percent.
WeightEpsilon == 1
\* Longest ticker symbol the leaf rule accepts.
MaxTickerLen == 6

UpperOrDigit == (48..57) \cup (65..90)

\* Leaf rule: non-empty, upper-case letters and digits, at most 6 characters.
TickerWellFormed(ticker) ==
    /\ Len(ticker) >= 1
    /\ Len(ticker) <= MaxTickerLen
    /\ \A i \in 1..Len(ticker) : ticker[i] \in UpperOrDigit

TickerSPY == <<83, 80, 89>>
TickerBTC == <<66, 84, 67>>
TickerETH == <<69, 84, 72>>
TickerLower == <<115, 112, 121>>

\* The asset class a ticker implies.
InferredClass(ticker) ==
    IF ticker \in {TickerBTC, TickerETH} THEN "CRYPTO" ELSE "EQUITIES"

Operators == {"gt", "lt", "gte", "lte"}
Indicators == {"rsi", "moving-average", "cumulative-return"}

\* Conditional rule: indicator, operator, threshold, optional right-hand
\* indicator.
ConditionWellFormed(c) ==
    /\ c.indicator \in Indicators
    /\ c.operator \in Operators
    /\ c.threshold \in Int
    /\ c.rhs \in Indicators \cup {"absent"}

Abs(n) == IF n < 0 THEN -n ELSE n

RECURSIVE SumSeq(_)
SumSeq(q) == IF q = <<>> THEN 0 ELSE Head(q) + SumSeq(Tail(q))

ChildWeight(c) ==
    IF "weight" \in DOMAIN c.parameters THEN c.parameters.weight ELSE 0

\* Sum of the weights of a node's children.
ObservedSum(n) == SumSeq([i \in 1..Len(n.children) |-> ChildWeight(n.children[i])])

\* Arity rule: the children-count a kind allows.
ArityOk(n) ==
    LET c == Len(n.children)
    IN  CASE n.kind \in LeafKinds            -> c = 0
          [] n.kind = "conditional-branch"   -> c \in {2, 3}
          [] OTHER                           -> c >= 1

NoError == [kind |-> "none"]

\* The rules of one node, in the order of the design document; the first
\* rule the node breaks is its error.
CheckNode(n, asset_classes) ==
    IF ~ArityOk(n)
    THEN [kind |-> "ArityMismatch", node_id |-> n.id]
    ELSE IF n.kind = "asset-leaf" /\ ~TickerWellFormed(n.parameters.ticker)
    THEN [kind |-> "InvalidTicker", node_id |-> n.id]
    ELSE IF /\ n.kind = "weighting-group"
            /\ n.parameters.mode = "explicit"
            /\ Abs(ObservedSum(n) - FullWeight) > WeightEpsilon
    THEN [kind |-> "WeightSumMismatch", node_id |-> n.id,
          observed_sum |-> ObservedSum(n)]
    ELSE IF n.kind = "conditional-branch" /\ ~ConditionWellFormed(n.parameters.condition)
    THEN [kind |-> "MalformedCondition", node_id |-> n.id]
    ELSE IF n.kind = "asset-leaf" /\ InferredClass(n.parameters.ticker) \notin asset_classes
    THEN [kind |-> "AssetClassMismatch", node_id |-> n.id]
    ELSE NoError

\* Depth-first walk, root first, children left to right, stopping at the
\* first node that breaks a rule.
RECURSIVE Walk(_, _)
RECURSIVE WalkChildren(_, _, _)
Walk(n, asset_classes) ==
    LET e == CheckNode(n, asset_classes)
    IN  IF e # NoError THEN e ELSE WalkChildren(n.children, 1, asset_classes)

WalkChildren(children, i, asset_classes) ==
    IF i > Len(children)
    THEN NoError
    ELSE LET e == Walk(children[i], asset_classes)
         IN  IF e # NoError THEN e ELSE WalkChildren(children, i + 1, asset_classes)

\* Rebalance/asset-class rule of the whole spec.
RebalanceOk(spec) ==
    AssetClasses \subseteq spec.asset_classes
        => spec.rebalance_frequency \in {"daily", "none"}

\* schemas.validate_symphony_score: the tree walk, then the spec-level rule.
validate_symphony_score(spec) ==
    LET e == Walk(spec.root, spec.asset_classes)
    IN  IF e # NoError
        THEN [done |-> TRUE, ok |-> FALSE, error |-> e]
        ELSE IF ~RebalanceOk(spec)
        THEN [done |-> TRUE, ok |-> FALSE,
              error |-> [kind |-> "RebalanceAssetClass", node_id |-> <<>>]]
        ELSE [done |-> TRUE, ok |-> TRUE, score |-> spec]

NotValidated == [done |-> FALSE]

(***************************************************************************)
(* Submitted strategies: every tree of the shapes below.                   *)
(***************************************************************************)
Leaf(ticker, weight) ==
    Node("asset-leaf", [ticker |-> ticker, weight |-> weight], <<>>)

\* Leaves that differ in their ticker: equity, crypto, malformed.
TickerLeaves == {Leaf(TickerSPY, 4000), Leaf(TickerBTC, 4000), Leaf(TickerLower, 4000)}
\* Leaves that differ in their weight: 30%, 40%, 40.01%, 40.02%, 60%.
WeightLeaves == {Leaf(TickerSPY, w) : w \in {3000, 4000, 4001, 4002, 6000}}
Leaves == TickerLeaves \cup WeightLeaves

SeqsUpTo(S, n) == UNION {[1..k -> S] : k \in 1..n}

ConditionGood == [indicator |-> "rsi", operator |-> "gt", threshold |-> 70,
                  rhs |-> "absent"]
ConditionBad == [indicator |-> "rsi", operator |-> "approx", threshold |-> 70,
                 rhs |-> "absent"]

Groups ==
    {Node("weighting-group", [mode |-> "explicit"], c) : c \in SeqsUpTo(Leaves, MaxChildren)}
    \cup {Node("weighting-group", [mode |-> "equal"], c) :
              c \in SeqsUpTo(TickerLeaves, MaxChildren)}
    \cup {Node("conditional-branch", [condition |-> cond], c) :
              cond \in {ConditionGood, ConditionBad},
              c \in SeqsUpTo(TickerLeaves, MaxChildren)}
    \cup {Node("filter", [select |-> "top"], <<Leaf(TickerSPY, 4000)>>)}

RootChildren ==
    {<<>>}
    \cup {<<x>> : x \in Leaves \cup Groups}
    \cup {<<g, l>> : g \in Groups, l \in {Leaf(TickerSPY, 4000), Leaf(TickerLower, 4000)}}
    \cup {<<Leaf(TickerLower, 4000), g>> : g \in Groups}

ClassSets == {{"EQUITIES"}, {"CRYPTO"}, {"EQUITIES", "CRYPTO"}}

StrategySpec(children, freq, classes) ==
    [name |-> "Buy the Dip", description |-> "sample",
     rebalance_frequency |-> freq, asset_classes |-> classes,
     root |-> Relabel(Node("root", [version |-> 1], children), <<>>)]

\* Strategies submitted to create_symphony.
Strategies ==
    {StrategySpec(c, f, a) : c \in RootChildren, f \in RebalanceFrequencies,
                             a \in ClassSets}

\* Strategies submitted to the tools that go on to call the remote service.
WireStrategies ==
    {StrategySpec(<<l>>, f, a) : l \in TickerLeaves, f \in RebalanceFrequencies,
                                 a \in ClassSets}

\* SymphonyScore.model_dump(): the plain mapping of the validated score.
model_dump(score) == [k |-> "score", v |-> score]

(***************************************************************************)
(* Backtest codec: BacktestResponse and parse_backtest_output.             *)
(***************************************************************************)
Str(text) == [k |-> "str", v |-> text]

\* The legend identifier of the strategy's own series.
StrategyId == "SYM"

\* schemas.BacktestResponse(**output): the typed payload; construction
\* fails when the legend or the series table is missing.
BacktestResponse(output) ==
    IF /\ {"stats", "legend", "series", "capital"} \subseteq DOMAIN output
       /\ output["legend"].k = "legend"
       /\ output["series"].k = "series"
       /\ output["stats"].k = "dict"
    THEN [raised |-> FALSE,
          stats |-> output["stats"], legend |-> output["legend"],
          series |-> output["series"], capital |-> output["capital"]]
    ELSE [raised |-> TRUE, exc |-> "PydanticError"]

\* The dates of the entries of one compact series.
SeriesDates(entries) == {epoch_ms_to_date(entries[i].t) : i \in 1..Len(entries)}

\* Every trading day of the window: the days any symbol has an entry for.
TradingDays(series) == UNION {SeriesDates(series.map[id]) : id \in DOMAIN series.map}

\* Series materialization: each entry with its date decoded, in order.
Materialize(entries) ==
    [i \in 1..Len(entries) |->
        [date |-> epoch_ms_to_date(entries[i].t), value |-> entries[i].v]]

\* utils.parse_backtest_output: legend, dates, dense series, capital,
\* and the per-day series dropped unless include_daily_values.
parse_backtest_output(br, include_daily_values) ==
    IF \/ StrategyId \notin DOMAIN br.series.map
       \/ SeriesDates(br.series.map[StrategyId]) # TradingDays(br.series)
    THEN [raised |-> TRUE, exc |-> "IncompleteSeries"]
    ELSE LET stats == Dict(Put(br.stats.items, "capital", br.capital))
             base  == [x \in {"stats", "legend"} |->
                          IF x = "stats" THEN stats ELSE br.legend]
             daily == [k |-> "daily",
                       map |-> [id \in DOMAIN br.series.map |->
                                   Materialize(br.series.map[id])]]
         IN  [raised |-> FALSE,
              value |-> IF include_daily_values
                        THEN Put(base, "daily_values", daily)
                        ELSE base]

(***************************************************************************)
(* What the remote service answers: the raw body (response.text) and what  *)
(* response.json() makes of it.                                            *)
(***************************************************************************)
Day1 == [s |-> 1699920000, ms |-> 0]
Day2 == [s |-> 1700006400, ms |-> 0]

Legend1 == [k |-> "legend",
            map |-> [id \in {"SYM", "SPY"} |->
                        IF id = "SYM" THEN [ticker |-> "SYM", name |-> "Strategy"]
                                      ELSE [ticker |-> "SPY", name |-> "S&P 500 ETF"]]]

\* Strategy dense over both days, benchmark sparse.
SeriesDense == [k |-> "series",
                map |-> [id \in {"SYM", "SPY"} |->
                            IF id = "SYM"
                            THEN <<[t |-> Day1, v |-> 0], [t |-> Day2, v |-> 5]>>
                            ELSE <<[t |-> Day2, v |-> 1]>>]]
\* Strategy missing the second day.
SeriesGap == [k |-> "series",
              map |-> [id \in {"SYM", "SPY"} |->
                          IF id = "SYM"
                          THEN <<[t |-> Day1, v |-> 0]>>
                          ELSE <<[t |-> Day1, v |-> 0], [t |-> Day2, v |-> 1]>>]]

Stats1 == Dict([x \in {"cagr", "max_drawdown", "sharpe"} |->
                   IF x = "cagr" THEN Num(12) ELSE IF x = "sharpe" THEN Num(1) ELSE Num(30)])
Stats2 == Dict([x \in {"cagr"} |-> Num(7)])

Obj3(k1, v1, k2, v2, k3, v3) == Put(Put(Put(EmptyItems, k1, v1), k2, v2), k3, v3)

NotJson == [t |-> "notjson"]
JsonArray == [t |-> "array"]
JsonObject(fields) == [t |-> "object", fields |-> fields]

Body(text, doc) == [text |-> text, doc |-> doc]

BacktestBodies ==
    { Body(Pad(<<123>>, 34, 60), JsonObject(Obj3("stats", Stats1, "legend", Legend1, "series", SeriesDense))),
      Body(Pad(<<123>>, 34, TruncLen + 200), JsonObject(Obj3("stats", Stats2, "legend", Legend1, "series", SeriesDense))),
      Body(Pad(<<123>>, 34, 50), JsonObject(Obj3("stats", Stats1, "legend", Legend1, "series", SeriesGap))),
      Body(Pad(<<123>>, 34, 30), JsonObject(Put(EmptyItems, "stats", Stats1))),
      Body(Pad(<<123>>, 34, TruncLen + 200), JsonObject(Put(EmptyItems, "message", Str(<<98, 97, 100>>)))),
      Body(Pad(<<123>>, 34, 20), JsonObject(Obj3("stats", Dict(EmptyItems), "legend", Legend1, "series", SeriesDense))),
      Body(Pad(<<123>>, 34, 12), JsonObject(Put(EmptyItems, "stats", Null))),
      Body(<<91, 93>>, JsonArray),
      Body(Pad(<<60>>, 104, TruncLen + 500), NotJson),
      Body(<<>>, NotJson) }

NoResponse == [text |-> <<>>, doc |-> [t |-> "none"]]
\* httpx could not reach the service.
NetworkFault == [text |-> <<>>, doc |-> [t |-> "fault"]]

Answers(bodies) == bodies \cup {NetworkFault}

(***************************************************************************)
(* How a handler ends.                                                     *)
(***************************************************************************)
Returned(v) == [kind |-> "returned", value |-> v]
Raised(exc) == [kind |-> "raised", exc |-> exc]

\* {"error": truncate_text(str(e), 1000), "response": truncate_text(response.text, 1000)}
ErrorWithResponse(exc, resp) ==
    Put(Put(EmptyItems, "error", Str(truncate_text(ExcText(exc), TruncLen))),
        "response", Str(truncate_text(resp.text, TruncLen)))

ValidateEvent(v) == [e |-> "validate", ok |-> v.ok]
HttpEvent(method, url, headers, json) ==
    [e |-> "http", method |-> method, url |-> url, headers |-> headers, json |-> json]

(***************************************************************************)
(* The tools.  Finish records one whole invocation.                        *)
(***************************************************************************)
Finish(op, args, v, ev, resp, out) ==
    /\ call' = [op |-> op, args |-> args]
    /\ validation' = v
    /\ events' = ev
    /\ response' = resp
    /\ outcome' = out
    /\ UNCHANGED concurrent

\* Python's None for an optional argument.
None == "None"

SymphonyIds == {"sym-1", "sym-2"}
StartDates == {None, "2024-01-01"}
EndDates == {None, "2024-06-30"}
Capitals == {10000, 2500}

\* The request parameters both backtest tools build (lines 43-55, 95-108);
\* the fee, broker, slippage and benchmark arguments are forwarded as given
\* and are held at their defaults.
BacktestParams(capital, start_date, end_date) ==
    LET base == [x \in {"apply_reg_fee", "apply_taf_fee", "broker", "capital"} |->
                    CASE x = "broker"  -> Str(<<65, 76, 80>>)
                      [] x = "capital" -> Num(capital)
                      [] OTHER         -> [k |-> "bool", v |-> TRUE]]
        p1   == IF start_date # None THEN Put(base, "start_date", [k |-> "date", v |-> start_date])
                ELSE base
    IN  IF end_date # None THEN Put(p1, "end_date", [k |-> "date", v |-> end_date]) ELSE p1

\* Lines 63-69 and 117-122: parse when the payload has stats, hand the
\* payload back when it has none, and turn any exception of the parse into
\* an error result.
StatsBranchAlwaysDaily(output, resp, include_daily_values) ==
    IF Truthy(Get(output, "stats"))
    THEN LET br == BacktestResponse(output)
         IN  IF br.raised
             THEN Returned(JsonObject(ErrorWithResponse(br.exc, resp)))
             ELSE LET r == parse_backtest_output(br, TRUE)
                  IN  IF r.raised
                      THEN Returned(JsonObject(ErrorWithResponse(r.exc, resp)))
                      ELSE Returned(JsonObject(r.value))
    ELSE Returned(JsonObject(output))

StatsBranchErrorWithoutStats(output, resp, include_daily_values) ==
    IF Truthy(Get(output, "stats"))
    THEN LET br == BacktestResponse(output)
         IN  IF br.raised
             THEN Returned(JsonObject(ErrorWithResponse(br.exc, resp)))
             ELSE LET r == parse_backtest_output(br, include_daily_values)
                  IN  IF r.raised
                      THEN Returned(JsonObject(ErrorWithResponse(r.exc, resp)))
                      ELSE Returned(JsonObject(r.value))
    ELSE Returned(JsonObject(ErrorWithResponse("KeyError", resp)))

StatsBranch(output, resp, include_daily_values) ==
    IF Truthy(Get(output, "stats"))
    THEN LET br == BacktestResponse(output)
         IN  IF br.raised
             THEN Returned(JsonObject(ErrorWithResponse(br.exc, resp)))
             ELSE LET r == parse_backtest_output(br, include_daily_values)
                  IN  IF r.raised
                      THEN Returned(JsonObject(ErrorWithResponse(r.exc, resp)))
                      ELSE Returned(JsonObject(r.value))
    ELSE Returned(JsonObject(output))

\* Lines 21-69.  response.json() and output["capital"] = capital stand
\* before the try: what they raise leaves the handler.
backtest_symphony_by_id_outcome(include_daily_values, capital, resp) ==
    IF resp = NetworkFault THEN Raised("ConnectError")
    ELSE IF resp.doc.t = "notjson" THEN Raised("JSONDecodeError")
    ELSE IF resp.doc.t # "object" THEN Raised("TypeError")
    ELSE StatsBranch(Put(resp.doc.fields, "capital", Num(capital)), resp,
                     include_daily_values)

backtest_symphony_by_id(symphony_id, start_date, end_date, include_daily_values, capital, resp) ==
    LET args == [symphony_id |-> symphony_id, start_date |-> start_date,
                 end_date |-> end_date, include_daily_values |-> include_daily_values,
                 capital |-> capital]
        req  == HttpEvent("POST", <<"symphonies", symphony_id, "backtest">>, "optional",
                          BacktestParams(capital, start_date, end_date))
    IN  Finish("backtest_symphony_by_id", args, NotValidated, <<req>>, resp,
               backtest_symphony_by_id_outcome(include_daily_values, capital, resp))

\* Lines 94-96, 139-140, 264-265, 304-305: the handlers use the validator's
\* result as a score without a test of it and outside any try, so a failed
\* validation leaves the handler as a fault at this point.
ValidationFault == Raised("ValidationError")

\* Lines 109-122: the request went out; the whole decode is inside the try.
backtest_symphony_outcome(include_daily_values, capital, resp) ==
    IF resp = NetworkFault THEN Raised("ConnectError")
    ELSE IF resp.doc.t = "notjson"
    THEN Returned(JsonObject(ErrorWithResponse("JSONDecodeError", resp)))
    ELSE IF resp.doc.t # "object"
    THEN Returned(JsonObject(ErrorWithResponse("TypeError", resp)))
    ELSE StatsBranch(Put(resp.doc.fields, "capital", Num(capital)), resp,
                     include_daily_values)

\* Lines 72-122.
backtest_symphony(symphony_score, start_date, end_date, include_daily_values, capital, resp) ==
    LET args == [symphony_score |-> symphony_score, start_date |-> start_date,
                 end_date |-> end_date, include_daily_values |-> include_daily_values,
                 capital |-> capital]
        v    == validate_symphony_score(symphony_score)
    IN  IF ~v.ok
        THEN Finish("backtest_symphony", args, v, <<ValidateEvent(v)>>, NoResponse,
                    ValidationFault)
        ELSE LET params == Put(BacktestParams(capital, start_date, end_date), "symphony",
                               [k |-> "raw_value", v |-> model_dump(v.score)])
                 req == HttpEvent("POST", <<"backtest">>, "optional", params)
             IN  Finish("backtest_symphony", args, v, <<ValidateEvent(v), req>>, resp,
                        backtest_symphony_outcome(include_daily_values, capital, resp))

\* SymphonyScore.model_dump_json()
model_dump_json(score) == [t |-> "json_text", of |-> model_dump(score)]

create_symphony_unvalidated(symphony_score) ==
    Finish("create_symphony", [symphony_score |-> symphony_score], NotValidated, <<>>,
           NoResponse, Returned(model_dump_json(symphony_score)))

\* Lines 125-140.
create_symphony(symphony_score) ==
    LET v == validate_symphony_score(symphony_score)
    IN  Finish("create_symphony", [symphony_score |-> symphony_score], v,
               <<ValidateEvent(v)>>, NoResponse,
               IF v.ok THEN Returned(model_dump_json(v.score)) ELSE ValidationFault)

Colors == {"#AEC3C6", "#FF6B6B"}
Hashtags == {"#BTD"}
SaveAssetClasses == {"EQUITIES", "CRYPTO"}

\* What the service answers to a save, an update or an order.
PlainBodies ==
    { Body(Pad(<<123>>, 34, 25), JsonObject(Put(EmptyItems, "symphony_id", Str(<<115, 49>>)))),
      Body(Pad(<<123>>, 34, TruncLen + 200), JsonObject(Put(EmptyItems, "errors", Str(<<98, 97, 100>>)))),
      Body(<<91, 93>>, JsonArray),
      Body(Pad(<<60>>, 104, TruncLen + 500), NotJson),
      Body(<<>>, NotJson) }

\* Lines 268-275 and 308-315.
SavePayload(symphony, asset_class, color, hashtag) ==
    [name |-> symphony.v.name, asset_class |-> asset_class,
     description |-> symphony.v.description, color |-> color, hashtag |-> hashtag,
     symphony |-> [k |-> "raw_value", v |-> symphony]]

\* {"error": truncate_text(str(e), 1000), "payload": payload_without_symphony}
ErrorWithPayload(exc, payload) ==
    Put(Put(EmptyItems, "error", Str(truncate_text(ExcText(exc), TruncLen))),
        "payload", [k |-> "payload",
                    v |-> [x \in DOMAIN payload \ {"symphony"} |-> payload[x]]])

\* Lines 255-291: the request is issued inside the try although the
\* validation is not.
save_symphony_request_first(symphony_score, color, hashtag, asset_class, resp) ==
    LET args    == [symphony_score |-> symphony_score, color |-> color,
                    hashtag |-> hashtag, asset_class |-> asset_class]
        v       == validate_symphony_score(symphony_score)
        payload == SavePayload(model_dump(symphony_score), asset_class, color, hashtag)
        req     == HttpEvent("POST", <<"symphonies">>, "env", payload)
        out     == IF ~v.ok THEN ValidationFault
                   ELSE IF resp = NetworkFault
                   THEN Returned(JsonObject(ErrorWithPayload("ConnectError", payload)))
                   ELSE IF resp.doc.t = "notjson"
                   THEN Returned(JsonObject(ErrorWithResponse("JSONDecodeError", resp)))
                   ELSE Returned(resp.doc)
    IN  Finish("save_symphony", args, v, <<req, ValidateEvent(v)>>, resp, out)

save_symphony(symphony_score, color, hashtag, asset_class, resp) ==
    LET args == [symphony_score |-> symphony_score, color |-> color,
                 hashtag |-> hashtag, asset_class |-> asset_class]
        v    == validate_symphony_score(symphony_score)
    IN  IF ~v.ok
        THEN Finish("save_symphony", args, v, <<ValidateEvent(v)>>, NoResponse,
                    ValidationFault)
        ELSE LET payload == SavePayload(model_dump(v.score), asset_class, color, hashtag)
                 req == HttpEvent("POST", <<"symphonies">>, "env", payload)
                 out == IF resp = NetworkFault
                        THEN Returned(JsonObject(ErrorWithPayload("ConnectError", payload)))
                        ELSE IF resp.doc.t = "notjson"
                        THEN Returned(JsonObject(ErrorWithResponse("JSONDecodeError", resp)))
                        ELSE Returned(resp.doc)
             IN  Finish("save_symphony", args, v, <<ValidateEvent(v), req>>, resp, out)

\* Lines 293-325: one try around the request and response.json().
update_saved_symphony(symphony_id, symphony_score, color, hashtag, asset_class, resp) ==
    LET args == [symphony_id |-> symphony_id, symphony_score |-> symphony_score,
                 color |-> color, hashtag |-> hashtag, asset_class |-> asset_class]
        v    == validate_symphony_score(symphony_score)
    IN  IF ~v.ok
        THEN Finish("update_saved_symphony", args, v, <<ValidateEvent(v)>>, NoResponse,
                    ValidationFault)
        ELSE LET payload == SavePayload(model_dump(v.score), asset_class, color, hashtag)
                 req == HttpEvent("PUT", <<"symphonies", symphony_id>>, "required", payload)
                 out == IF resp = NetworkFault
                        THEN Returned(JsonObject(ErrorWithPayload("ConnectError", payload)))
                        ELSE IF resp.doc.t = "notjson"
                        THEN Returned(JsonObject(ErrorWithPayload("JSONDecodeError", payload)))
                        ELSE Returned(resp.doc)
             IN  Finish("update_saved_symphony", args, v, <<ValidateEvent(v), req>>, resp,
                        out)

(***************************************************************************)
(* Daily performance.                                                      *)
(***************************************************************************)
AccountIds == {"acct-1"}

Stamp(sec, ms) == [s |-> sec, ms |-> ms]

\* Timestamps at the start, inside and at the last millisecond of a UTC
\* day, around a leap day, at the epoch and before it.
TimeSamples ==
    { Stamp(0, 0), Stamp(86399, 999), Stamp(86400, 0), Stamp(-1, 999),
      Stamp(1700000000, 0), Stamp(1699920000, 0), Stamp(1700006399, 999),
      Stamp(1700006400, 0), Stamp(1709164800, 0), Stamp(951868799, 999) }

List(q) == [k |-> "list", v |-> q]

PerformanceBodies ==
    { Body(<<123, 125>>,
           JsonObject(Put(Put(EmptyItems, "epoch_ms", List(q)),
                          "series", List([i \in 1..Len(q) |-> 100 + i]))))
        : q \in {<<>>} \cup SeqsUpTo(TimeSamples, MaxDates) }
    \cup { Body(<<123, 125>>, JsonObject(Put(EmptyItems, "message", Str(<<98, 97, 100>>)))),
           Body(<<91, 93>>, JsonArray),
           Body(<<60, 104>>, NotJson) }

DatesOfReversed(epoch_ms) ==
    [i \in 1..Len(epoch_ms) |-> epoch_ms_to_date(epoch_ms[Len(epoch_ms) + 1 - i])]

\* Lines 229 and 248: [epoch_ms_to_date(d) for d in data['epoch_ms']]
DatesOf(epoch_ms) == [i \in 1..Len(epoch_ms) |-> epoch_ms_to_date(epoch_ms[i])]

\* Lines 228-231 and 247-250; nothing here is inside a try.
PerformanceResult(resp) ==
    IF resp = NetworkFault THEN Raised("ConnectError")
    ELSE IF resp.doc.t = "notjson" THEN Raised("JSONDecodeError")
    ELSE IF resp.doc.t # "object" THEN Raised("TypeError")
    ELSE IF "epoch_ms" \notin DOMAIN resp.doc.fields THEN Raised("KeyError")
    ELSE LET data  == resp.doc.fields
             dates == List(DatesOf(data["epoch_ms"].v))
         IN  Returned(JsonObject(Del(Put(data, "dates", dates), "epoch_ms")))

\* Lines 211-231.
get_symphony_daily_performance(account_uuid, symphony_id, resp) ==
    Finish("get_symphony_daily_performance",
           [account_uuid |-> account_uuid, symphony_id |-> symphony_id], NotValidated,
           <<HttpEvent("GET", <<"portfolio", "accounts", account_uuid, "symphonies",
                                symphony_id>>, "env", EmptyItems)>>,
           resp, PerformanceResult(resp))

\* Lines 233-250.
get_portfolio_daily_performance(account_uuid, resp) ==
    Finish("get_portfolio_daily_performance", [account_uuid |-> account_uuid],
           NotValidated,
           <<HttpEvent("GET", <<"portfolio", "accounts", account_uuid,
                                "portfolio-history">>, "required", EmptyItems)>>,
           resp, PerformanceResult(resp))

(***************************************************************************)
(* Single orders.                                                          *)
(***************************************************************************)
\* Names bound while execute_single_trade builds its payload: its
\* parameters, its local url, and the globals of server.py.
TradeNames ==
    {"account_uuid", "type", "symbol", "time_in_force", "notional", "quantity", "url"}
    \cup {"BASE_URL", "mcp", "httpx", "os", "Field", "FastMCP", "List", "Dict", "Any",
          "Literal", "Optional"}

\* Names the payload literal of lines 510-516 reads.
PayloadNames == {"position_id", "type", "symbol", "time_in_force", "source"}

OrderTypes == {"MARKET", "LIMIT"}
TimesInForce == {"DAY", "GTC"}
Amounts == {Null, Num(0), Num(5)}

MissingAmount == [k |-> "msg", v |-> "One of notional or quantity must be provided"]

\* Lines 494-530.
execute_single_trade(account_uuid, type, symbol, time_in_force, notional, quantity, resp) ==
    LET args == [account_uuid |-> account_uuid, type |-> type, symbol |-> symbol,
                 time_in_force |-> time_in_force, notional |-> notional,
                 quantity |-> quantity]
        base == [x \in {"type", "symbol", "time_in_force"} |->
                    CASE x = "type" -> [k |-> "name", v |-> type]
                      [] x = "symbol" -> Str(symbol)
                      [] OTHER -> [k |-> "name", v |-> time_in_force]]
        p1   == IF notional # Null THEN Put(base, "notional", notional) ELSE base
        p2   == IF quantity # Null THEN Put(p1, "quantity", quantity) ELSE p1
        req  == HttpEvent("POST", <<"trading", "accounts", account_uuid, "order-requests">>,
                          "required", p2)
    IN  IF ~(PayloadNames \subseteq TradeNames)
        THEN Finish("execute_single_trade", args, NotValidated, <<>>, NoResponse,
                    Raised("NameError"))
        ELSE IF ~Truthy(notional) /\ ~Truthy(quantity)
        THEN Finish("execute_single_trade", args, NotValidated, <<>>, NoResponse,
                    Returned(JsonObject(Put(EmptyItems, "error", MissingAmount))))
        ELSE Finish("execute_single_trade", args, NotValidated, <<req>>, resp,
                    IF resp = NetworkFault THEN Raised("ConnectError")
                    ELSE IF resp.doc.t = "notjson" THEN Raised("JSONDecodeError")
                    ELSE Returned(resp.doc))

(***************************************************************************)
(* Deposits into and withdrawals from a symphony.                          *)
(***************************************************************************)
\* Amounts a caller may pass: below, at and above zero.
TransferAmounts == {-5, -1, 0, 1, 5}

InvestAmountError == [k |-> "msg", v |-> "Amount must be greater than 0"]
WithdrawAmountError == [k |-> "msg", v |-> "Amount must be less than 0"]

\* json={"amount": amount}
AmountPayload(amount) == Put(EmptyItems, "amount", Num(amount))

\* return response.json() (lines 374, 395), outside any try.
PlainResult(resp) ==
    IF resp = NetworkFault THEN Raised("ConnectError")
    ELSE IF resp.doc.t = "notjson" THEN Raised("JSONDecodeError")
    ELSE Returned(resp.doc)

invest_in_symphony_zero_allowed(account_uuid, symphony_id, amount, resp) ==
    LET args == [account_uuid |-> account_uuid, symphony_id |-> symphony_id,
                 amount |-> amount]
        req  == HttpEvent("POST", <<"deploy", "accounts", account_uuid, "symphonies",
                                    symphony_id, "invest">>, "required",
                          AmountPayload(amount))
    IN  IF amount < 0
        THEN Finish("invest_in_symphony", args, NotValidated, <<>>, NoResponse,
                    Returned(JsonObject(Put(EmptyItems, "error", InvestAmountError))))
        ELSE Finish("invest_in_symphony", args, NotValidated, <<req>>, resp,
                    PlainResult(resp))

\* Lines 356-374.
invest_in_symphony(account_uuid, symphony_id, amount, resp) ==
    LET args == [account_uuid |-> account_uuid, symphony_id |-> symphony_id,
                 amount |-> amount]
        req  == HttpEvent("POST", <<"deploy", "accounts", account_uuid, "symphonies",
                                    symphony_id, "invest">>, "required",
                          AmountPayload(amount))
    IN  IF amount <= 0
        THEN Finish("invest_in_symphony", args, NotValidated, <<>>, NoResponse,
                    Returned(JsonObject(Put(EmptyItems, "error", InvestAmountError))))
        ELSE Finish("invest_in_symphony", args, NotValidated, <<req>>, resp,
                    PlainResult(resp))

\* Lines 377-395.
withdraw_from_symphony(account_uuid, symphony_id, amount, resp) ==
    LET args == [account_uuid |-> account_uuid, symphony_id |-> symphony_id,
                 amount |-> amount]
        req  == HttpEvent("POST", <<"deploy", "accounts", account_uuid, "symphonies",
                                    symphony_id, "withdraw">>, "required",
                          AmountPayload(amount))
    IN  IF amount >= 0
        THEN Finish("withdraw_from_symphony", args, NotValidated, <<>>, NoResponse,
                    Returned(JsonObject(Put(EmptyItems, "error", WithdrawAmountError))))
        ELSE Finish("withdraw_from_symphony", args, NotValidated, <<req>>, resp,
                    PlainResult(resp))

(***************************************************************************)
(* Two invocations of the backtest tools in flight at once.  Each runs the *)
(* statements of its handler one at a time, and the statements of the two  *)
(* invocations interleave in any order.  A handler reads and assigns its   *)
(* variables through the scope Python gives each name.                     *)
(***************************************************************************)
Invocations == {1, 2}

\* Names the two backtest handlers assign (lines 43, 56, 61 and 94, 95,
\* 109, 115).
LocalNames == {"validated_score", "params", "response", "output"}

Unbound == [k |-> "unbound"]
EmptyFrame == [n \in LocalNames |-> Unbound]

\* Names bound at module level (lines 14 and 18); no handler assigns them.
ModuleGlobals == [n \in {"BASE_URL", "mcp"} |->
                    IF n = "BASE_URL"
                    THEN "https://public-api-gateway-599937284915.us-central1.run.app"
                    ELSE "FastMCP"]

ScopeOutputGlobal(name) == IF name = "output" THEN "global" ELSE "local"

\* server.py has no global or nonlocal statement: every name a handler
\* assigns is local to the running call.
Scope(name) == "local"

\* The variable store as one value.
Store == [frames |-> frames, globals |-> module_globals]

\* name = v in invocation t.
Assign(st, t, name, v) ==
    IF Scope(name) = "global"
    THEN [st EXCEPT !.globals = Put(st.globals, name, v)]
    ELSE [st EXCEPT !.frames[t][name] = v]

\* The value of name in invocation t.
Read(t, name) ==
    IF Scope(name) = "global" THEN module_globals[name] ELSE frames[t][name]

\* What the caller of an invocation sees: the call it made, the request
\* that went out for it, the answer the service gave to that request, and
\* the result handed back.  overlapped records that the other invocation was
\* between its first and last statement while this one ran a statement.
IdleThread ==
    [pc |-> "idle", op |-> "none", args |-> EmptyItems, request |-> Null,
     resp |-> NoResponse, result |-> Returned(Null), overlapped |-> FALSE]

InFlight(t) == threads[t].pc \notin {"idle", "done"}

\* One statement of invocation t: its caller-side record becomes th and the
\* store becomes st.
Advance(t, th, st) ==
    /\ threads' = [threads EXCEPT ![t] =
                      [th EXCEPT !.overlapped =
                          @ \/ \E u \in Invocations \ {t} : InFlight(u)]]
    /\ frames' = st.frames
    /\ module_globals' = st.globals
    /\ UNCHANGED sequential

Ended(t, out) == [threads[t] EXCEPT !.pc = "done", !.result = out]

\* Arguments and answers of the interleaved calls.
ConcurrentScores ==
    {StrategySpec(<<Leaf(TickerSPY, 4000)>>, "daily", {"EQUITIES"}),
     StrategySpec(<<Leaf(TickerLower, 4000)>>, "daily", {"EQUITIES"})}

ConcurrentBodies ==
    { Body(Pad(<<123>>, 34, 60), JsonObject(Obj3("stats", Stats1, "legend", Legend1, "series", SeriesDense))),
      Body(Pad(<<123>>, 34, TruncLen + 200), JsonObject(Put(EmptyItems, "message", Str(<<98, 97, 100>>)))),
      Body(<<91, 93>>, JsonArray),
      Body(Pad(<<60>>, 104, TruncLen + 500), NotJson) }

\* Lines 21-29: the call enters backtest_symphony_by_id.
enter_backtest_symphony_by_id(t) ==
    /\ threads[t].pc = "idle"
    /\ \E id \in SymphonyIds, daily \in BOOLEAN, capital \in Capitals :
        Advance(t, [IdleThread EXCEPT
                       !.pc = "entered", !.op = "backtest_symphony_by_id",
                       !.args = [symphony_id |-> id, start_date |-> None,
                                 end_date |-> None, include_daily_values |-> daily,
                                 capital |-> capital]],
                Store)

\* Lines 72-81: the call enters backtest_symphony.
enter_backtest_symphony(t) ==
    /\ threads[t].pc = "idle"
    /\ \E score \in ConcurrentScores, daily \in BOOLEAN, capital \in Capitals :
        Advance(t, [IdleThread EXCEPT
                       !.pc = "entered", !.op = "backtest_symphony",
                       !.args = [symphony_score |-> score, start_date |-> None,
                                 end_date |-> None, include_daily_values |-> daily,
                                 capital |-> capital]],
                Store)

\* Line 94: validated_score = validate_symphony_score(symphony_score).
validate_statement(t) ==
    /\ threads[t].pc = "entered"
    /\ threads[t].op = "backtest_symphony"
    /\ LET v == validate_symphony_score(threads[t].args.symphony_score)
       IN  IF ~v.ok
           THEN Advance(t, Ended(t, ValidationFault), Store)
           ELSE Advance(t, [threads[t] EXCEPT !.pc = "validated"],
                        Assign(Store, t, "validated_score", v))

\* Lines 43-55 and 95-108: params = {...}.
params_statement(t) ==
    /\ \/ threads[t].pc = "entered" /\ threads[t].op = "backtest_symphony_by_id"
       \/ threads[t].pc = "validated" /\ threads[t].op = "backtest_symphony"
    /\ LET a    == threads[t].args
           base == BacktestParams(a.capital, a.start_date, a.end_date)
           p    == IF threads[t].op = "backtest_symphony"
                   THEN Put(base, "symphony",
                            [k |-> "raw_value",
                             v |-> model_dump(Read(t, "validated_score").score)])
                   ELSE base
       IN  Advance(t, [threads[t] EXCEPT !.pc = "built"], Assign(Store, t, "params", p))

\* Lines 56-60 and 109-113: response = httpx.post(url, headers=..., json=params).
post_statement(t) ==
    /\ threads[t].pc = "built"
    /\ \E resp \in Answers(ConcurrentBodies) :
        LET url == IF threads[t].op = "backtest_symphony"
                   THEN <<"backtest">>
                   ELSE <<"symphonies", threads[t].args.symphony_id, "backtest">>
            th  == [threads[t] EXCEPT
                       !.request = HttpEvent("POST", url, "optional", Read(t, "params")),
                       !.resp = resp]
        IN  IF resp = NetworkFault
            THEN Advance(t, [th EXCEPT !.pc = "done", !.result = Raised("ConnectError")],
                         Store)
            ELSE Advance(t, [th EXCEPT !.pc = "answered"],
                         Assign(Store, t, "response", resp))

\* Lines 61 and 115: output = response.json(); outside the try in
\* backtest_symphony_by_id, inside it in backtest_symphony.
json_statement(t) ==
    /\ threads[t].pc = "answered"
    /\ LET r == Read(t, "response")
       IN  IF r.doc.t = "notjson"
           THEN Advance(t, Ended(t, IF threads[t].op = "backtest_symphony"
                                    THEN Returned(JsonObject(
                                             ErrorWithResponse("JSONDecodeError", r)))
                                    ELSE Raised("JSONDecodeError")),
                        Store)
           ELSE Advance(t, [threads[t] EXCEPT !.pc = "decoded"],
                        Assign(Store, t, "output", r.doc))

\* Lines 62 and 116: output["capital"] = capital.
capital_statement(t) ==
    /\ threads[t].pc = "decoded"
    /\ LET o == Read(t, "output")
       IN  IF o.t # "object"
           THEN Advance(t, Ended(t, IF threads[t].op = "backtest_symphony"
                                    THEN Returned(JsonObject(
                                             ErrorWithResponse("TypeError",
                                                               Read(t, "response"))))
                                    ELSE Raised("TypeError")),
                        Store)
           ELSE Advance(t, [threads[t] EXCEPT !.pc = "stamped"],
                        Assign(Store, t, "output",
                               JsonObject(Put(o.fields, "capital",
                                              Num(threads[t].args.capital)))))

\* Lines 63-69 and 117-122.
stats_statement(t) ==
    /\ threads[t].pc = "stamped"
    /\ Advance(t, Ended(t, StatsBranch(Read(t, "output").fields, Read(t, "response"),
                                       threads[t].args.include_daily_values)),
               Store)

\* The handler is left: its result goes to the caller and its frame is
\* dropped.
return_statement(t) ==
    /\ threads[t].pc = "done"
    /\ Advance(t, IdleThread, [Store EXCEPT !.frames[t] = EmptyFrame])

(***************************************************************************)
(* The state machine: the server takes one call at a time; any tool may be *)
(* called with any of the enumerated arguments, and the service may answer *)
(* with any body.                                                          *)
(***************************************************************************)
Idle == [op |-> "none", args |-> EmptyItems]

Init ==
    /\ call = Idle
    /\ validation = NotValidated
    /\ events = <<>>
    /\ response = NoResponse
    /\ outcome = Returned(Null)
    /\ threads = [t \in Invocations |-> IdleThread]
    /\ frames = [t \in Invocations |-> EmptyFrame]
    /\ module_globals = ModuleGlobals

call_backtest_symphony_by_id ==
    /\ call = Idle
    /\ \E id \in SymphonyIds, sd \in StartDates, ed \in EndDates, daily \in BOOLEAN,
       capital \in Capitals, resp \in Answers(BacktestBodies) :
        backtest_symphony_by_id(id, sd, ed, daily, capital, resp)

call_backtest_symphony ==
    /\ call = Idle
    /\ \E score \in WireStrategies, sd \in StartDates, ed \in EndDates, daily \in BOOLEAN,
       capital \in Capitals, resp \in Answers(BacktestBodies) :
        backtest_symphony(score, sd, ed, daily, capital, resp)

call_create_symphony ==
    /\ call = Idle
    /\ \E score \in Strategies : create_symphony(score)

call_save_symphony ==
    /\ call = Idle
    /\ \E score \in WireStrategies, color \in Colors, hashtag \in Hashtags,
       class \in SaveAssetClasses, resp \in Answers(PlainBodies) :
        save_symphony(score, color, hashtag, class, resp)

call_update_saved_symphony ==
    /\ call = Idle
    /\ \E id \in SymphonyIds, score \in WireStrategies, color \in Colors,
       hashtag \in Hashtags, class \in SaveAssetClasses, resp \in Answers(PlainBodies) :
        update_saved_symphony(id, score, color, hashtag, class, resp)

call_get_symphony_daily_performance ==
    /\ call = Idle
    /\ \E account \in AccountIds, id \in SymphonyIds, resp \in Answers(PerformanceBodies) :
        get_symphony_daily_performance(account, id, resp)

call_get_portfolio_daily_performance ==
    /\ call = Idle
    /\ \E account \in AccountIds, resp \in Answers(PerformanceBodies) :
        get_portfolio_daily_performance(account, resp)

call_execute_single_trade ==
    /\ call = Idle
    /\ \E account \in AccountIds, type \in OrderTypes, tif \in TimesInForce,
       notional \in Amounts, quantity \in Amounts, resp \in Answers(PlainBodies) :
        execute_single_trade(account, type, TickerSPY, tif, notional, quantity, resp)

call_invest_in_symphony ==
    /\ call = Idle
    /\ \E account \in AccountIds, id \in SymphonyIds, amount \in TransferAmounts,
       resp \in Answers(PlainBodies) :
        invest_in_symphony(account, id, amount, resp)

call_withdraw_from_symphony ==
    /\ call = Idle
    /\ \E account \in AccountIds, id \in SymphonyIds, amount \in TransferAmounts,
       resp \in Answers(PlainBodies) :
        withdraw_from_symphony(account, id, amount, resp)

\* mcp.run(): the result of the call goes back to the caller, nothing of it
\* is kept, and the server waits for the next call.
mcp_respond ==
    /\ call # Idle
    /\ call' = Idle
    /\ validation' = NotValidated
    /\ events' = <<>>
    /\ response' = NoResponse
    /\ outcome' = Returned(Null)
    /\ UNCHANGED concurrent

Next ==
    \/ mcp_respond
    \/ call_backtest_symphony_by_id
    \/ call_backtest_symphony
    \/ call_create_symphony
    \/ call_save_symphony
    \/ call_update_saved_symphony
    \/ call_get_symphony_daily_performance
    \/ call_get_portfolio_daily_performance
    \/ call_execute_single_trade
    \/ call_invest_in_symphony
    \/ call_withdraw_from_symphony

Spec == Init /\ [][Next]_vars

\* The server with two invocations of the backtest tools in flight.
NextConcurrent ==
    \E t \in Invocations :
        \/ enter_backtest_symphony_by_id(t)
        \/ enter_backtest_symphony(t)
        \/ validate_statement(t)
        \/ params_statement(t)
        \/ post_statement(t)
        \/ json_statement(t)
        \/ capital_statement(t)
        \/ stats_statement(t)
        \/ return_statement(t)

SpecConcurrent == Init /\ [][NextConcurrent]_vars

(***************************************************************************)
(* Properties.                                                             *)
(***************************************************************************)
BacktestOps == {"backtest_symphony_by_id", "backtest_symphony"}
ValidatingOps == {"create_symphony", "backtest_symphony", "save_symphony",
                  "update_saved_symphony"}

\* The last call was a backtest and the service answered it.
BacktestAnswered == call.op \in BacktestOps /\ response.doc.t \in {"notjson", "array", "object"}

\* The answer decoded as a JSON object that has no stats, or empty or null
\* stats.
AnswerLacksStats ==
    response.doc.t = "object" /\ ~Truthy(Get(response.doc.fields, "stats"))

\* The handler returned {"error": ..., "response": <body cut to TruncLen>}.
ReturnedErrorWithBody ==
    /\ outcome.kind = "returned"
    /\ outcome.value.t = "object"
    /\ {"error", "response"} \subseteq DOMAIN outcome.value.fields
    /\ outcome.value.fields["response"] = Str(truncate_text(response.text, TruncLen))

C2_AsStated == (BacktestAnswered /\ response.doc.t = "notjson") => ReturnedErrorWithBody

\* C3 as stated: in every tool that validates a strategy, a strategy that
\* fails validation yields the typed error as the returned value; the
\* failure never leaves the tool as an exception.
C3_AsStated ==
    (call.op \in ValidatingOps /\ validation.done /\ ~validation.ok)
        => /\ outcome.kind = "returned"
           /\ outcome.value = validation.error

(***************************************************************************)
(* Properties of validation, read off the last create_symphony call.       *)
(***************************************************************************)
Submitted == call.args.symphony_score

\* Every path of a tree: the sequence of child indices from the root.
RECURSIVE Paths(_)
Paths(n) ==
    {<<>>} \cup UNION {{<<i>> \o p : p \in Paths(n.children[i])} : i \in 1..Len(n.children)}

RECURSIVE NodeAt(_, _)
NodeAt(n, path) == IF path = <<>> THEN n ELSE NodeAt(n.children[Head(path)], Tail(path))

\* Every node of a strategy that breaks a rule, by path.
Violations(spec) ==
    {p \in Paths(spec.root) : CheckNode(NodeAt(spec.root, p), spec.asset_classes) # NoError}

IsPrefix(p, q) == Len(p) <= Len(q) /\ SubSeq(q, 1, Len(p)) = p

\* p comes before q in pre-order: an ancestor before its descendants, and
\* otherwise the one under the child further to the left.
PreorderBefore(p, q) ==
    \/ p # q /\ IsPrefix(p, q)
    \/ \E i \in 1..Len(p) :
          /\ i <= Len(q)
          /\ SubSeq(p, 1, i - 1) = SubSeq(q, 1, i - 1)
          /\ p[i] < q[i]

PreorderFirst(V) == CHOOSE p \in V : \A q \in V \ {p} : PreorderBefore(p, q)

BothClasses == {"EQUITIES", "CRYPTO"}

\* C4: a strategy of both asset classes whose tree breaks no rule passes
\* validation exactly when it rebalances daily or on threshold (none); with
\* weekly, monthly or quarterly it fails, and the same strategy with only
\* the frequency changed to daily passes.
C4_MixedClassRebalance ==
    (/\ call.op = "create_symphony"
     /\ Submitted.asset_classes = BothClasses
     /\ Violations(Submitted) = {})
        => /\ (validation.done /\ validation.ok)
                <=> Submitted.rebalance_frequency \in {"daily", "none"}
           /\ Submitted.rebalance_frequency \in {"weekly", "monthly", "quarterly"}
                => /\ validation.done /\ ~validation.ok
                   /\ validate_symphony_score(
                          [Submitted EXCEPT !.rebalance_frequency = "daily"]).ok

\* An equities-and-crypto strategy with a sound tree was refused for
\* rebalancing weekly.
C4_Witness ==
    /\ call.op = "create_symphony"
    /\ Submitted.asset_classes = BothClasses
    /\ Violations(Submitted) = {}
    /\ Submitted.rebalance_frequency = "weekly"
    /\ validation.done /\ ~validation.ok
    /\ validation.error.kind = "RebalanceAssetClass"
    /\ \E p \in Paths(Submitted.root) :
          /\ NodeAt(Submitted.root, p).kind = "asset-leaf"
          /\ NodeAt(Submitted.root, p).parameters.ticker = TickerBTC

\* C5: validation reports one error, that of the first node in pre-order
\* that breaks a rule; the rebalance/asset-class rule is reported only when
\* no node breaks a rule.
C5_FirstInPreorder ==
    call.op = "create_symphony"
        => LET V == Violations(Submitted)
           IN  /\ validation.done
               /\ V # {}
                    => /\ ~validation.ok
                       /\ validation.error.kind # "RebalanceAssetClass"
                       /\ validation.error.node_id = PreorderFirst(V)
                       /\ validation.error =
                              CheckNode(NodeAt(Submitted.root, PreorderFirst(V)),
                                        Submitted.asset_classes)
               /\ (V = {} /\ ~RebalanceOk(Submitted))
                    => /\ ~validation.ok
                       /\ validation.error.kind = "RebalanceAssetClass"
               /\ (V = {} /\ RebalanceOk(Submitted)) => validation.ok

\* A strategy breaking the rebalance rule and two node rules, the deeper
\* node on the left and the shallower one on the right: the deeper one was
\* reported.
C5_Witness ==
    /\ call.op = "create_symphony"
    /\ ~RebalanceOk(Submitted)
    /\ \E p, q \in Violations(Submitted) :
          /\ Len(p) > Len(q)
          /\ PreorderBefore(p, q)
          /\ validation.done /\ ~validation.ok
          /\ validation.error.node_id = p

\* The weights of a node's children, added up one index at a time.
RECURSIVE WeightsUpTo(_, _)
WeightsUpTo(n, i) ==
    IF i = 0 THEN 0 ELSE WeightsUpTo(n, i - 1) + n.children[i].parameters.weight

ExplicitGroups(spec) ==
    {p \in Paths(spec.root) :
        /\ NodeAt(spec.root, p).kind = "weighting-group"
        /\ NodeAt(spec.root, p).parameters.mode = "explicit"}

\* C6: an explicit weighting-group passes the weight rule exactly when its
\* child weights sum to 100% within 0.01%: validation never reports
\* WeightSumMismatch for a group within the tolerance, and for a group
\* outside it that no violation precedes it reports WeightSumMismatch with
\* the group's id and the observed sum (60% + 30% gives 90%).
C6_WeightSum ==
    call.op = "create_symphony"
        => \A p \in ExplicitGroups(Submitted) :
              LET n      == NodeAt(Submitted.root, p)
                  total  == WeightsUpTo(n, Len(n.children))
                  within == total \in 9999..10001
                  weight_error == [kind |-> "WeightSumMismatch", node_id |-> p,
                                   observed_sum |-> total]
              IN  /\ validation.done
                  /\ within => (validation.ok \/ validation.error # weight_error)
                  /\ (~within /\ \A q \in Violations(Submitted) : ~PreorderBefore(q, p))
                        => /\ ~validation.ok
                           /\ validation.error = weight_error
                  /\ (/\ Len(n.children) = 2
                      /\ n.children[1].parameters.weight = 6000
                      /\ n.children[2].parameters.weight = 3000
                      /\ validation.done /\ ~validation.ok
                      /\ validation.error.node_id = p)
                        => validation.error.observed_sum = 9000

\* Weights 60% and 30% were refused with an observed sum of 90%.
C6_Witness ==
    /\ call.op = "create_symphony"
    /\ \E p \in ExplicitGroups(Submitted) :
          LET n == NodeAt(Submitted.root, p)
          IN  /\ Len(n.children) = 2
              /\ n.children[1].parameters.weight = 6000
              /\ n.children[2].parameters.weight = 3000
              /\ validation.done /\ ~validation.ok
              /\ validation.error = [kind |-> "WeightSumMismatch", node_id |-> p,
                                     observed_sum |-> 9000]

(***************************************************************************)
(* Properties of the backtest codec.                                       *)
(***************************************************************************)
\* The handler returned a parsed backtest: stats and legend, no error.
ParsedBacktest(o) ==
    /\ o.kind = "returned"
    /\ o.value.t = "object"
    /\ {"stats", "legend"} \subseteq DOMAIN o.value.fields
    /\ "error" \notin DOMAIN o.value.fields

\* No per-day series anywhere in a returned object.
NoDailySeries(o) ==
    /\ "daily_values" \notin DOMAIN o.value.fields
    /\ \A key \in DOMAIN o.value.fields : o.value.fields[key].k \notin {"daily", "series"}

\* C7: for an answer that has stats, the decode with include_daily_values
\* true and the decode with it false give the same stats and the same
\* legend, and the one for false holds no per-day series.
C7_Truncation ==
    (/\ BacktestAnswered
     /\ response.doc.t = "object"
     /\ Truthy(Get(response.doc.fields, "stats")))
        => LET output  == Put(response.doc.fields, "capital", Num(call.args.capital))
               with    == StatsBranch(output, response, TRUE)
               without == StatsBranch(output, response, FALSE)
           IN  /\ outcome = IF call.args.include_daily_values THEN with ELSE without
               /\ ParsedBacktest(with) <=> ParsedBacktest(without)
               /\ ParsedBacktest(with)
                    => /\ with.value.fields["stats"] = without.value.fields["stats"]
                       /\ with.value.fields["legend"] = without.value.fields["legend"]
                       /\ with.value.fields["stats"].items["capital"] = Num(call.args.capital)
                       /\ "daily_values" \in DOMAIN with.value.fields
                       /\ NoDailySeries(without)
               /\ (ParsedBacktest(outcome) /\ ~call.args.include_daily_values)
                    => NoDailySeries(outcome)

\* A backtest asked for without daily values came back with stats and
\* legend and no per-day series.
C7_Witness ==
    /\ call.op = "backtest_symphony"
    /\ ~call.args.include_daily_values
    /\ ParsedBacktest(outcome)
    /\ NoDailySeries(outcome)
    /\ DOMAIN response.doc.fields["series"].map # {}

(***************************************************************************)
(* Properties of date decoding.                                            *)
(***************************************************************************)
LeapYear(y) == (y % 4 = 0 /\ y % 100 # 0) \/ y % 400 = 0

DaysInMonth(y, m) ==
    IF m = 2 THEN (IF LeapYear(y) THEN 29 ELSE 28)
    ELSE IF m \in {4, 6, 9, 11} THEN 30 ELSE 31

RECURSIVE DaysBeforeMonth(_, _)
DaysBeforeMonth(y, m) ==
    IF m = 1 THEN 0 ELSE DaysBeforeMonth(y, m - 1) + DaysInMonth(y, m - 1)

\* Days from 1970-01-01 to the first day of year y, counted year by year.
DaysBeforeYear(y) ==
    IF y >= 1970
    THEN 365 * (y - 1970) + Cardinality({k \in 1970..(y - 1) : LeapYear(k)})
    ELSE -(365 * (1970 - y) + Cardinality({k \in y..1969 : LeapYear(k)}))

IsDigit(c) == c \in 48..57
Number(text, from, to) ==
    LET RECURSIVE Value(_)
        Value(i) == IF i < from THEN 0 ELSE 10 * Value(i - 1) + (text[i] - 48)
    IN  Value(to)

\* text is YYYY-MM-DD, names a day of the calendar, and that UTC day
\* holds the timestamp t.
IsDateOfUtcDay(text, t) ==
    /\ Len(text) = 10
    /\ text[5] = 45 /\ text[8] = 45
    /\ \A i \in {1, 2, 3, 4, 6, 7, 9, 10} : IsDigit(text[i])
    /\ LET y == Number(text, 1, 4)
           m == Number(text, 6, 7)
           d == Number(text, 9, 10)
           start == DaysBeforeYear(y) + DaysBeforeMonth(y, m) + d - 1
       IN  /\ m \in 1..12
           /\ d \in 1..DaysInMonth(y, m)
           /\ (t.s - start * 86400) \in 0..86399
           /\ t.ms \in 0..999

PerformanceOps == {"get_symphony_daily_performance", "get_portfolio_daily_performance"}

\* "2023-11-14"
Date20231114 == <<50, 48, 50, 51, 45, 49, 49, 45, 49, 52>>

\* C8: the daily-performance tools return one YYYY-MM-DD date per epoch_ms
\* entry, in the same order, each the calendar date of the UTC day that
\* holds the entry; 1700000000000 gives 2023-11-14, equal timestamps and
\* timestamps of one UTC day give equal dates.
C8_DatesOfUtcDays ==
    (/\ call.op \in PerformanceOps
     /\ response.doc.t = "object"
     /\ "epoch_ms" \in DOMAIN response.doc.fields)
        => LET epoch_ms == response.doc.fields["epoch_ms"].v
           IN  /\ outcome.kind = "returned"
               /\ "epoch_ms" \notin DOMAIN outcome.value.fields
               /\ "dates" \in DOMAIN outcome.value.fields
               /\ LET dates == outcome.value.fields["dates"].v
                  IN  /\ Len(dates) = Len(epoch_ms)
                      /\ \A i \in 1..Len(epoch_ms) :
                            /\ IsDateOfUtcDay(dates[i], epoch_ms[i])
                            /\ epoch_ms[i] = Stamp(1700000000, 0) => dates[i] = Date20231114
                            /\ \A j \in 1..Len(epoch_ms) :
                                  (epoch_ms[i].s \div 86400 = epoch_ms[j].s \div 86400)
                                      => dates[i] = dates[j]

\* A performance history of two different days, 1700000000000 first, came
\* back as 2023-11-14 followed by another date.
C8_Witness ==
    /\ call.op = "get_symphony_daily_performance"
    /\ outcome.kind = "returned"
    /\ "dates" \in DOMAIN outcome.value.fields
    /\ Len(outcome.value.fields["dates"].v) = 2
    /\ response.doc.fields["epoch_ms"].v[1] = Stamp(1700000000, 0)
    /\ outcome.value.fields["dates"].v[1] = Date20231114
    /\ outcome.value.fields["dates"].v[2] # Date20231114

(***************************************************************************)
(* Properties of the order and of the order of validation and request.     *)
(***************************************************************************)
HttpEvents == {i \in 1..Len(events) : events[i].e = "http"}

\* C9 as stated: execute_single_trade with neither notional nor quantity
\* returns the error value and issues no request; with at least one of
\* them it issues exactly one POST carrying the order and raises nothing
\* while building it.
C9_AsStated ==
    call.op = "execute_single_trade"
        => IF call.args.notional = Null /\ call.args.quantity = Null
           THEN /\ outcome = Returned(JsonObject(Put(EmptyItems, "error", MissingAmount)))
                /\ HttpEvents = {}
           ELSE /\ Cardinality(HttpEvents) = 1
                /\ events[1].method = "POST"
                /\ outcome # Raised("NameError")

StrategyOps == {"backtest_symphony", "save_symphony", "update_saved_symphony"}

\* C10: in backtest_symphony, save_symphony and update_saved_symphony every
\* request comes after a validation that passed and carries exactly the
\* validated strategy, which is the submitted one; a strategy that fails
\* validation causes no request.
C10_ValidateBeforeRequest ==
    call.op \in StrategyOps
        => /\ validation.done
           /\ Len(events) >= 1 /\ events[1].e = "validate"
           /\ \A i \in HttpEvents :
                 /\ \E j \in 1..(i - 1) : events[j].e = "validate" /\ events[j].ok
                 /\ validation.ok
                 /\ validation.score = Submitted
                 /\ events[i].json["symphony"] =
                        [k |-> "raw_value", v |-> model_dump(validation.score)]
           /\ ~validation.ok => (HttpEvents = {} /\ response = NoResponse)
           /\ validation.ok => Cardinality(HttpEvents) = 1

\* A strategy that failed validation in save_symphony and caused no request.
C10_Witness ==
    /\ call.op = "save_symphony"
    /\ validation.done /\ ~validation.ok
    /\ events = <<ValidateEvent(validation)>>
    /\ outcome = ValidationFault

(***************************************************************************)
(* Properties of deposits and withdrawals.                                 *)
(***************************************************************************)
TransferOps == {"invest_in_symphony", "withdraw_from_symphony"}

\* The amount the tool refuses: invest needs amount > 0, withdraw amount < 0.
Refused(op, amount) == IF op = "invest_in_symphony" THEN amount <= 0 ELSE amount >= 0

RefusalOf(op) ==
    IF op = "invest_in_symphony"
    THEN [k |-> "msg", v |-> "Amount must be greater than 0"]
    ELSE [k |-> "msg", v |-> "Amount must be less than 0"]

\* C11: no invest request carries an amount <= 0 and no withdraw request an
\* amount >= 0.  invest_in_symphony with amount <= 0 and
\* withdraw_from_symphony with amount >= 0 return the error value and issue
\* no request; in every other case exactly one POST is issued, to the
\* invest resp. withdraw endpoint of the given account and symphony, and it
\* carries the amount the caller passed.
C11_AmountGuards ==
    call.op \in TransferOps
        => /\ \A i \in HttpEvents :
                 /\ events[i].method = "POST"
                 /\ events[i].json["amount"].k = "num"
                 /\ ~Refused(call.op, events[i].json["amount"].v)
           /\ IF Refused(call.op, call.args.amount)
              THEN /\ events = <<>>
                   /\ response = NoResponse
                   /\ outcome = Returned([t |-> "object",
                                          fields |-> [x \in {"error"} |-> RefusalOf(call.op)]])
              ELSE /\ Len(events) = 1 /\ HttpEvents = {1}
                   /\ events[1].method = "POST"
                   /\ events[1].url = <<"deploy", "accounts", call.args.account_uuid,
                                        "symphonies", call.args.symphony_id,
                                        IF call.op = "invest_in_symphony"
                                        THEN "invest" ELSE "withdraw">>
                   /\ DOMAIN events[1].json = {"amount"}
                   /\ events[1].json["amount"].v = call.args.amount

\* An invest of amount 0 was refused without a request, the boundary of the
\* guard.
C11_Witness ==
    /\ call.op = "invest_in_symphony"
    /\ call.args.amount = 0
    /\ events = <<>>
    /\ outcome.kind = "returned"
    /\ "error" \in DOMAIN outcome.value.fields

(***************************************************************************)
(* Properties of invocations in flight at the same time.                   *)
(***************************************************************************)
\* The result of the call run alone, as the one-call-at-a-time server
\* computes it from the call's arguments and the answer to its request.
SequentialResult(op, args, resp) ==
    IF op = "backtest_symphony_by_id"
    THEN backtest_symphony_by_id_outcome(args.include_daily_values, args.capital, resp)
    ELSE IF ~validate_symphony_score(args.symphony_score).ok
    THEN ValidationFault
    ELSE backtest_symphony_outcome(args.include_daily_values, args.capital, resp)

\* The request of the call run alone.
SequentialRequest(op, args) ==
    IF op = "backtest_symphony_by_id"
    THEN HttpEvent("POST", <<"symphonies", args.symphony_id, "backtest">>, "optional",
                   BacktestParams(args.capital, args.start_date, args.end_date))
    ELSE HttpEvent("POST", <<"backtest">>, "optional",
                   Put(BacktestParams(args.capital, args.start_date, args.end_date),
                       "symphony",
                       [k |-> "raw_value",
                        v |-> model_dump(validate_symphony_score(args.symphony_score).score)]))

\* C12: no operation keeps mutable state across calls.  With two
\* invocations of the backtest tools interleaved statement by statement,
\* the names bound at module level never change, the request of each
\* invocation is the one its own arguments give, and the result of each
\* finished invocation is the result of running that call alone on its own
\* arguments and the answer to its own request, whatever the other
\* invocation did in between.
C12_Independent ==
    /\ module_globals = [n \in {"BASE_URL", "mcp"} |->
                            IF n = "BASE_URL"
                            THEN "https://public-api-gateway-599937284915.us-central1.run.app"
                            ELSE "FastMCP"]
    /\ \A t \in {1, 2} :
          /\ threads[t].request # Null
                => threads[t].request = SequentialRequest(threads[t].op, threads[t].args)
          /\ threads[t].pc = "done"
                => threads[t].result =
                       SequentialResult(threads[t].op, threads[t].args, threads[t].resp)
          /\ threads[t].pc = "idle" => frames[t] = [n \in DOMAIN frames[t] |-> [k |-> "unbound"]]

\* The capital a returned backtest result carries: an entry of the
\* passed-through payload, or of the stats of a parsed result.
CapitalIn(fields) ==
    IF "capital" \in DOMAIN fields THEN fields["capital"]
    ELSE fields["stats"].items["capital"]

\* Both invocations finished after running interleaved, with different
\* capital and different answers, and each returned a backtest result that
\* carries its own capital.
C12_Witness ==
    /\ threads[1].pc = "done" /\ threads[2].pc = "done"
    /\ threads[1].overlapped /\ threads[2].overlapped
    /\ threads[1].op = "backtest_symphony_by_id" /\ threads[2].op = "backtest_symphony"
    /\ threads[1].args.capital # threads[2].args.capital
    /\ threads[1].resp # threads[2].resp
    /\ threads[1].resp.doc.t = "object" /\ threads[2].resp.doc.t = "object"
    /\ threads[1].result.kind = "returned" /\ threads[2].result.kind = "returned"
    /\ CapitalIn(threads[1].result.value.fields) = Num(threads[1].args.capital)
    /\ CapitalIn(threads[2].result.value.fields) = Num(threads[2].args.capital)

====
